---- MODULE Spec2Model ----
(***************************************************************************)
(* Model of cell_charge_discharge.py (BatteryFlow Pro, a Streamlit app).   *)
(*                                                                         *)
(* The script is re-executed from top to bottom on every operator          *)
(* interaction and on every st.rerun().  One action of the model is one    *)
(* interaction together with every re-execution it causes.                 *)
(*                                                                         *)
(* Units.  Floats are kept on an integer grid:                             *)
(*   voltage      in 0.01 V   (3.2 V   = 320)                              *)
(*   current      in 0.01 A   (2.0 A   = 200)                              *)
(*   temperature  in 0.1 C    (25.0 C  = 250)                              *)
(*   test time    in 0.1 h                                                 *)
(*   capacity     in 0.0001 W (product of a voltage and a current)         *)
(* A cell named Cell_k is identified by its index k; the dict cells_data,  *)
(* whose insertion order is Cell_1, Cell_2, ..., is a sequence.            *)
(*                                                                         *)
(* bench_info and start_time are written by the script and read only to    *)
(* print them; they are left out, as are the charts and tables.            *)
(***************************************************************************)
EXTENDS Integers, Sequences, FiniteSets, TLC

VARIABLES
    cells_data,       \* st.session_state.cells_data
    charging_status,  \* st.session_state.charging_status
    page,             \* the sidebar selectbox "navigation"
    real_time_data,   \* st.session_state.real_time_data
    historical_data,  \* st.session_state.historical_data, as a list of rows
    all_warnings,     \* the Dashboard's warnings panel as last rendered
    now,              \* datetime.now(), counted in ticks
    frame             \* one call of a pure function: arguments, locals, result

vars ==
    <<cells_data, charging_status, page, real_time_data, historical_data,
      all_warnings, now, frame>>

(***************************************************************************)
(* Bounds of the model.                                                    *)
(***************************************************************************)
\* the largest number of cells the Setup slider offers (16 in the source)
MaxCells == 2

\* samples kept per configured cell in the rolling buffer (60 in the source)
SamplesPerCell == 2

\* random.uniform(a, b) is drawn on a grid of Grain steps between a and b
Grain == 2

\* minutes of mock history the Analysis page generates (120 in the source)
HistoryPoints == 1

\* the session is followed for SamplesPerCell + 1 ticks, enough for a
\* one-cell buffer to overflow
MaxTime == SamplesPerCell + 1

(***************************************************************************)
(* Helpers.                                                                *)
(***************************************************************************)
Abs(x) == IF x < 0 THEN -x ELSE x

Max(a, b) == IF a >= b THEN a ELSE b

Modes == {"Idle", "Charging", "Discharging", "Paused"}

Pages == {"Dashboard", "Setup", "Control Panel", "Analysis"}

CellTypes == {"LFP", "NMC", "LTO"}

CELL_SPECS ==
    [LFP |-> [nominal |-> 320, min |-> 280, max |-> 360],
     NMC |-> [nominal |-> 360, min |-> 300, max |-> 420],
     LTO |-> [nominal |-> 240, min |-> 180, max |-> 280]]

\* random.uniform(a, b): the u-th point of the grid, u in 0..Grain
uniform(a, b, u) == a + ((b - a) * u) \div Grain

\* the three draws of one loop iteration of generate_real_time_data
Draws == (0..Grain) \X (0..Grain) \X (0..Grain)

(***************************************************************************)
(* generate_real_time_data                                                 *)
(***************************************************************************)
\* perturbed with the Charging temperature rise copied into Discharging
perturbed_shared_heat(cell_data, status, u) ==
    LET base_voltage == cell_data.voltage
        base_current == cell_data.current
        base_temp    == cell_data.temperature
    IN  IF status = "Charging" THEN
            [voltage     |-> base_voltage + uniform(5, 15, u[1]),
             current     |-> Abs(base_current) + uniform(-50, 50, u[2]),
             temperature |-> base_temp + uniform(20, 80, u[3])]
        ELSE IF status = "Discharging" THEN
            [voltage     |-> base_voltage - uniform(5, 15, u[1]),
             current     |-> (-Abs(base_current)) + uniform(-50, 50, u[2]),
             temperature |-> base_temp + uniform(20, 80, u[3])]
        ELSE IF status = "Paused" THEN
            [voltage     |-> base_voltage + uniform(-2, 2, u[1]),
             current     |-> uniform(-10, 10, u[2]),
             temperature |-> base_temp + uniform(-10, 10, u[3])]
        ELSE
            [voltage     |-> base_voltage + uniform(-1, 1, u[1]),
             current     |-> 0,
             temperature |-> base_temp + uniform(-5, 5, u[3])]

\* perturbed with an Idle branch that keeps the baseline current
perturbed_idle_baseline(cell_data, status, u) ==
    LET base_voltage == cell_data.voltage
        base_current == cell_data.current
        base_temp    == cell_data.temperature
    IN  IF status = "Charging" THEN
            [voltage     |-> base_voltage + uniform(5, 15, u[1]),
             current     |-> Abs(base_current) + uniform(-50, 50, u[2]),
             temperature |-> base_temp + uniform(20, 80, u[3])]
        ELSE IF status = "Discharging" THEN
            [voltage     |-> base_voltage - uniform(5, 15, u[1]),
             current     |-> (-Abs(base_current)) + uniform(-50, 50, u[2]),
             temperature |-> base_temp + uniform(10, 50, u[3])]
        ELSE IF status = "Paused" THEN
            [voltage     |-> base_voltage + uniform(-2, 2, u[1]),
             current     |-> uniform(-10, 10, u[2]),
             temperature |-> base_temp + uniform(-10, 10, u[3])]
        ELSE
            [voltage     |-> base_voltage + uniform(-1, 1, u[1]),
             current     |-> base_current,
             temperature |-> base_temp + uniform(-5, 5, u[3])]

\* the locals voltage, current, temperature after the if/elif chain
perturbed(cell_data, status, u) ==
    LET base_voltage == cell_data.voltage
        base_current == cell_data.current
        base_temp    == cell_data.temperature
    IN  IF status = "Charging" THEN
            [voltage     |-> base_voltage + uniform(5, 15, u[1]),
             current     |-> Abs(base_current) + uniform(-50, 50, u[2]),
             temperature |-> base_temp + uniform(20, 80, u[3])]
        ELSE IF status = "Discharging" THEN
            [voltage     |-> base_voltage - uniform(5, 15, u[1]),
             current     |-> (-Abs(base_current)) + uniform(-50, 50, u[2]),
             temperature |-> base_temp + uniform(10, 50, u[3])]
        ELSE IF status = "Paused" THEN
            [voltage     |-> base_voltage + uniform(-2, 2, u[1]),
             current     |-> uniform(-10, 10, u[2]),
             temperature |-> base_temp + uniform(-10, 10, u[3])]
        ELSE
            [voltage     |-> base_voltage + uniform(-1, 1, u[1]),
             current     |-> 0,
             temperature |-> base_temp + uniform(-5, 5, u[3])]

\* data_point without the clamp of the voltage
data_point_unclamped(cell_name, cell_data, current_time, p) ==
    [timestamp   |-> current_time,
     cell_id     |-> cell_name,
     cell_type   |-> cell_data.type,
     voltage     |-> p.voltage,
     current     |-> p.current,
     temperature |-> p.temperature,
     capacity    |-> IF p.current # 0 THEN Abs(p.voltage * p.current) ELSE 0]

\* the dict appended to data_points
data_point(cell_name, cell_data, current_time, p) ==
    [timestamp   |-> current_time,
     cell_id     |-> cell_name,
     cell_type   |-> cell_data.type,
     voltage     |-> Max(0, p.voltage),
     current     |-> p.current,
     temperature |-> p.temperature,
     capacity    |-> IF p.current # 0 THEN Abs(p.voltage * p.current) ELSE 0]

\* rng[k] holds the draws of the iteration for Cell_k
generate_real_time_data(cells, status, current_time, rng) ==
    [k \in 1..Len(cells) |->
        data_point(k, cells[k], current_time, perturbed(cells[k], status, rng[k]))]

(***************************************************************************)
(* get_safety_warnings                                                     *)
(***************************************************************************)
\* a warning is <<severity, <<message kind, formatted value>>>>
voltage_warning(voltage, spec) ==
    IF voltage > spec.max THEN <<(<<"CRITICAL", <<"Overvoltage", voltage>>>>)>>
    ELSE IF voltage < spec.min THEN <<(<<"WARNING", <<"Undervoltage", voltage>>>>)>>
    ELSE <<>>

\* current_warning with the limit itself counted as high
current_warning_from_limit(current) ==
    IF Abs(current) >= 1000 THEN <<(<<"WARNING", <<"High current", Abs(current)>>>>)>>
    ELSE <<>>

current_warning(current) ==
    IF Abs(current) > 1000 THEN <<(<<"WARNING", <<"High current", Abs(current)>>>>)>>
    ELSE <<>>

temperature_warning(temperature) ==
    IF temperature > 450 THEN <<(<<"CRITICAL", <<"Overheating", temperature>>>>)>>
    ELSE IF temperature < 0 THEN <<(<<"WARNING", <<"Low temperature", temperature>>>>)>>
    ELSE <<>>

\* get_safety_warnings with the current check made twice
get_safety_warnings_current_twice(voltage, current, temperature, cell_type) ==
    voltage_warning(voltage, CELL_SPECS[cell_type])
        \o current_warning(current)
        \o current_warning(current)
        \o temperature_warning(temperature)

\* get_safety_warnings with the temperature check made first
get_safety_warnings_temperature_first(voltage, current, temperature, cell_type) ==
    temperature_warning(temperature)
        \o voltage_warning(voltage, CELL_SPECS[cell_type])
        \o current_warning(current)

get_safety_warnings(voltage, current, temperature, cell_type) ==
    voltage_warning(voltage, CELL_SPECS[cell_type])
        \o current_warning(current)
        \o temperature_warning(temperature)

(***************************************************************************)
(* calculate_charge_percentage.  The result is kept as the exact fraction  *)
(* num / den (den > 0): the ints 0 and 100 of the two clamps are 0/1 and   *)
(* 100/1, the interpolation is (voltage - min) * 100 / (max - min).        *)
(***************************************************************************)
\* calculate_charge_percentage without the elif of the upper clamp
calculate_charge_percentage_unclamped(voltage, cell_type) ==
    LET spec == CELL_SPECS[cell_type]
    IN  IF voltage <= spec.min THEN [num |-> 0, den |-> 1]
        ELSE [num |-> (voltage - spec.min) * 100, den |-> spec.max - spec.min]

\* calculate_charge_percentage interpolating down from the upper limit
calculate_charge_percentage_inverted(voltage, cell_type) ==
    LET spec == CELL_SPECS[cell_type]
    IN  IF voltage <= spec.min THEN [num |-> 0, den |-> 1]
        ELSE IF voltage >= spec.max THEN [num |-> 100, den |-> 1]
        ELSE [num |-> (spec.max - voltage) * 100, den |-> spec.max - spec.min]

calculate_charge_percentage(voltage, cell_type) ==
    LET spec == CELL_SPECS[cell_type]
    IN  IF voltage <= spec.min THEN [num |-> 0, den |-> 1]
        ELSE IF voltage >= spec.max THEN [num |-> 100, den |-> 1]
        ELSE [num |-> (voltage - spec.min) * 100, den |-> spec.max - spec.min]

(***************************************************************************)
(* Safety Analysis: one entry of safety_data for one row of the history    *)
(***************************************************************************)
\* safety_score charging a CRITICAL warning twice the points of a WARNING
safety_score_by_severity(warnings) ==
    Max(0, 100 - (Len(warnings)
                    + Len(SelectSeq(warnings, LAMBDA w : w[1] = "CRITICAL"))) * 25)

safety_score(warnings) == Max(0, 100 - Len(warnings) * 25)

safety_data_entry(row) ==
    LET warnings == get_safety_warnings(row.voltage, row.current,
                                        row.temperature, row.cell_type)
    IN  [safety_score  |-> safety_score(warnings),
         warning_count |-> Len(warnings)]

(***************************************************************************)
(* Setup page                                                              *)
(***************************************************************************)
\* the ranges the number_input widgets of configure_cell enforce
widget_ranges(w) ==
    /\ w.type \in CellTypes
    /\ 0 <= w.voltage /\ w.voltage <= 500
    /\ -2000 <= w.current /\ w.current <= 2000
    /\ -200 <= w.temperature /\ w.temperature <= 800
    /\ 0 <= w.time /\ w.time <= 1000

\* the entry configure_cell stores for one cell from its widgets
configure_cell(w) ==
    [type        |-> w.type,
     voltage     |-> w.voltage,
     current     |-> w.current,
     temperature |-> w.temperature,
     time        |-> w.time,
     capacity    |-> Abs(w.voltage * w.current)]

\* new_cells_data started from the saved mapping instead of an empty dict
new_cells_data_merged(num_cells, widgets) ==
    [i \in 1..Max(num_cells, Len(cells_data)) |->
        IF i <= num_cells THEN configure_cell(widgets[i]) ELSE cells_data[i]]

\* new_cells_data after the loop over range(num_cells)
new_cells_data(num_cells, widgets) ==
    [i \in 1..num_cells |-> configure_cell(widgets[i])]

\* widget values the operator enters in a session: the defaults of an LFP
\* cell, and a deeply discharged warm NMC cell under a heavy load
SetupEntries ==
    {[type |-> "LFP", voltage |-> 320, current |-> 200, temperature |-> 250, time |-> 10],
     [type |-> "NMC", voltage |-> 0, current |-> -1200, temperature |-> 400, time |-> 10]}

SetupForms == UNION {[1..n -> SetupEntries] : n \in 1..MaxCells}

(***************************************************************************)
(* Dashboard page: the safety warnings panel                               *)
(***************************************************************************)
\* the f-string "{cell_name}: {warning_type} {message}"
panel_line(cell_name, w) == <<cell_name, w[1], w[2]>>

RECURSIVE panel_from(_, _)
panel_from(cells, k) ==
    IF k > Len(cells) THEN <<>>
    ELSE LET warnings == get_safety_warnings(cells[k].voltage, cells[k].current,
                                             cells[k].temperature, cells[k].type)
         IN  [j \in 1..Len(warnings) |-> panel_line(k, warnings[j])]
                 \o panel_from(cells, k + 1)

safety_warnings_panel(cells) == panel_from(cells, 1)

(***************************************************************************)
(* Control Panel page: real-time monitoring                                *)
(***************************************************************************)
\* keep_last with a slice that starts one entry early
keep_last_one_more(data, num_cells) ==
    IF Len(data) > SamplesPerCell * num_cells
    THEN SubSeq(data, Len(data) - SamplesPerCell * num_cells, Len(data))
    ELSE data

RECURSIVE newest_of_each_cell(_, _)
newest_of_each_cell(data, j) ==
    IF j > Len(data) THEN <<>>
    ELSE LET later == {k \in (j + 1)..Len(data) : data[k].cell_id = data[j].cell_id}
         IN  (IF Cardinality(later) < SamplesPerCell THEN <<data[j]>> ELSE <<>>)
                 \o newest_of_each_cell(data, j + 1)

\* keep_last evicting per cell: the last SamplesPerCell samples of each cell
keep_last_per_cell(data, num_cells) == newest_of_each_cell(data, 1)

\* real_time_data[-60 * len(cells_data):] when the list is longer than that
keep_last(data, num_cells) ==
    IF Len(data) > SamplesPerCell * num_cells
    THEN SubSeq(data, Len(data) - SamplesPerCell * num_cells + 1, Len(data))
    ELSE data

\* the draws of one tick over num_cells cells, one triple per cell
Randomness(num_cells) == [1..num_cells -> Draws]

\* the draws a session is followed with: in one execution of the script
\* every draw is the low end of its interval, or every draw is the high end
SessionRandomness(num_cells) ==
    {[k \in 1..num_cells |-> d] : d \in {<<0, 0, 0>>, <<Grain, Grain, Grain>>}}

(***************************************************************************)
(* Analysis page: mock historical data                                     *)
(***************************************************************************)
\* one row of historical_data; its timestamp is kept as the minute i after
\* base_time
historical_row(i, cell_name, cell_data, u) ==
    LET voltage     == cell_data.voltage + uniform(-20, 20, u[1])
        current     == cell_data.current + uniform(-100, 100, u[2])
        temperature == cell_data.temperature + uniform(-50, 150, u[3])
    IN  [timestamp   |-> i,
         cell_id     |-> cell_name,
         cell_type   |-> cell_data.type,
         voltage     |-> Max(0, voltage),
         current     |-> current,
         temperature |-> temperature,
         capacity    |-> Abs(voltage * current)]

\* the rows in the order of the two nested loops: minutes, then cells
generate_historical_data(cells, rng) ==
    [r \in 1..(HistoryPoints * Len(cells)) |->
        LET i == (r - 1) \div Len(cells)
            k == ((r - 1) % Len(cells)) + 1
        IN  historical_row(i, k, cells[k], rng[k])]

(***************************************************************************)
(* One execution of the script body for the page shown.                    *)
(***************************************************************************)
DashboardPage(cells) ==
    /\ all_warnings' = safety_warnings_panel(cells)
    /\ UNCHANGED <<real_time_data, historical_data, now>>

SetupPage ==
    /\ all_warnings' = <<>>
    /\ UNCHANGED <<real_time_data, historical_data, now>>

ControlPanelPage(cells, status) ==
    /\ all_warnings' = <<>>
    /\ IF cells # <<>>
       THEN /\ now < MaxTime
            /\ now' = now + 1
            /\ \E rng \in SessionRandomness(Len(cells)) :
                 LET current_data == generate_real_time_data(cells, status, now + 1, rng)
                 IN  real_time_data' = keep_last(real_time_data \o current_data, Len(cells))
       ELSE UNCHANGED <<real_time_data, now>>
    /\ UNCHANGED historical_data

\* AnalysisPage generating the history anew on every visit
AnalysisPage_regenerating(cells) ==
    /\ all_warnings' = <<>>
    /\ IF cells # <<>>
       THEN \E rng \in SessionRandomness(Len(cells)) :
                historical_data' = generate_historical_data(cells, rng)
       ELSE UNCHANGED historical_data
    /\ UNCHANGED <<real_time_data, now>>

AnalysisPage(cells) ==
    /\ all_warnings' = <<>>
    /\ IF historical_data = <<>> /\ cells # <<>>
       THEN \E rng \in SessionRandomness(Len(cells)) :
                historical_data' = generate_historical_data(cells, rng)
       ELSE UNCHANGED historical_data
    /\ UNCHANGED <<real_time_data, now>>

RenderPage(p, cells, status) ==
    \/ p = "Dashboard" /\ DashboardPage(cells)
    \/ p = "Setup" /\ SetupPage
    \/ p = "Control Panel" /\ ControlPanelPage(cells, status)
    \/ p = "Analysis" /\ AnalysisPage(cells)

(***************************************************************************)
(* Operator interactions and the automatic refresh.                        *)
(***************************************************************************)
NoFrame == [fn |-> "none"]

Init ==
    /\ cells_data = <<>>
    /\ charging_status = "Idle"
    /\ page = "Dashboard"
    /\ real_time_data = <<>>
    /\ historical_data = <<>>
    /\ all_warnings = <<>>
    /\ now = 0
    /\ frame = NoFrame

\* the sidebar selectbox: the script runs again with the page chosen
Navigate(p) ==
    /\ p # page
    /\ page' = p
    /\ RenderPage(p, cells_data, charging_status)
    /\ UNCHANGED <<cells_data, charging_status, frame>>

\* the sidebar button "Refresh Data": st.rerun() of the page shown
RefreshData ==
    /\ RenderPage(page, cells_data, charging_status)
    /\ UNCHANGED <<cells_data, charging_status, page, frame>>

\* the button "Save Configuration", then st.rerun() of the Setup page
\* SaveConfiguration emptying the rolling buffer with the old mapping
SaveConfiguration_clearing_buffer(widgets) ==
    /\ page = "Setup"
    /\ \A i \in DOMAIN widgets : widget_ranges(widgets[i])
    /\ cells_data' = new_cells_data(Len(widgets), widgets)
    /\ all_warnings' = <<>>
    /\ real_time_data' = <<>>
    /\ UNCHANGED <<historical_data, now, charging_status, page, frame>>

SaveConfiguration(widgets) ==
    /\ page = "Setup"
    /\ \A i \in DOMAIN widgets : widget_ranges(widgets[i])
    /\ cells_data' = new_cells_data(Len(widgets), widgets)
    /\ SetupPage
    /\ UNCHANGED <<charging_status, page, frame>>

\* the four control buttons: each sets the status, then st.rerun() executes
\* the Control Panel page under the new status
StartCharging ==
    /\ page = "Control Panel"
    /\ charging_status' = "Charging"
    /\ ControlPanelPage(cells_data, "Charging")
    /\ UNCHANGED <<cells_data, page, frame>>

StartDischarging ==
    /\ page = "Control Panel"
    /\ charging_status' = "Discharging"
    /\ ControlPanelPage(cells_data, "Discharging")
    /\ UNCHANGED <<cells_data, page, frame>>

\* Pause offered only while charging or discharging
Pause_when_active ==
    /\ page = "Control Panel"
    /\ charging_status \in {"Charging", "Discharging"}
    /\ charging_status' = "Paused"
    /\ ControlPanelPage(cells_data, "Paused")
    /\ UNCHANGED <<cells_data, page, frame>>

Pause ==
    /\ page = "Control Panel"
    /\ charging_status' = "Paused"
    /\ ControlPanelPage(cells_data, "Paused")
    /\ UNCHANGED <<cells_data, page, frame>>

Stop ==
    /\ page = "Control Panel"
    /\ charging_status' = "Idle"
    /\ ControlPanelPage(cells_data, "Idle")
    /\ UNCHANGED <<cells_data, page, frame>>

\* values of the "Safety Timeout (min)" slider
SliderValues == {10, 180}

\* the six sliders below the charts: their values are bound to locals that
\* nothing reads
AdjustControlParameter(value) ==
    /\ page = "Control Panel"
    /\ cells_data # <<>>
    /\ value \in SliderValues
    /\ ControlPanelPage(cells_data, charging_status)
    /\ UNCHANGED <<cells_data, charging_status, page, frame>>

\* AutoRefresh enforcing a timeout: the status falls back to Idle when the
\* session's time is up
AutoRefresh_with_timeout ==
    /\ charging_status \in {"Charging", "Discharging"}
    /\ page = "Control Panel"
    /\ ControlPanelPage(cells_data, charging_status)
    /\ charging_status' = IF now + 1 >= MaxTime THEN "Idle" ELSE charging_status
    /\ UNCHANGED <<cells_data, page, frame>>

\* AutoRefresh with the rerun made in the Charging mode only
AutoRefresh_charging_only ==
    /\ charging_status = "Charging"
    /\ page = "Control Panel"
    /\ ControlPanelPage(cells_data, charging_status)
    /\ UNCHANGED <<cells_data, charging_status, page, frame>>

\* the sleep(1) and st.rerun() at the end of the script
AutoRefresh ==
    /\ charging_status \in {"Charging", "Discharging"}
    /\ page = "Control Panel"
    /\ ControlPanelPage(cells_data, charging_status)
    /\ UNCHANGED <<cells_data, charging_status, page, frame>>

Next ==
    \/ \E p \in Pages : Navigate(p)
    \/ RefreshData
    \/ \E widgets \in SetupForms : SaveConfiguration(widgets)
    \/ StartCharging
    \/ StartDischarging
    \/ Pause
    \/ Stop
    \/ \E value \in SliderValues : AdjustControlParameter(value)
    \/ AutoRefresh

Spec == Init /\ [][Next]_vars

\* the operator may stay idle for ever; the sleep(1) and st.rerun() at the
\* end of the script need nobody and are taken whenever they stay possible
LiveSpec == Init /\ [][Next]_vars /\ WF_vars(AutoRefresh)

(***************************************************************************)
(* The pure functions, one call at a time: frame holds the arguments of a  *)
(* call and, once it has returned, its locals and its result.              *)
(***************************************************************************)
Around(x) == {x - 1, x, x + 1}

\* readings on, next to and far from every threshold
ProbeVoltages ==
    {-10, 0, 500}
        \cup UNION {Around(CELL_SPECS[c].min) \cup Around(CELL_SPECS[c].max) : c \in CellTypes}

ProbeCurrents == {-2000, 0, 2000} \cup Around(-1000) \cup Around(1000)

ProbeTemperatures == {-200, 250, 800} \cup Around(0) \cup Around(450)

\* baselines the Setup page accepts: voltages at and near 0, currents that
\* a draw can cancel, temperatures at both ends of the widget's range
BaselineVoltages == {0, 1, 10, 320, 500}

BaselineCurrents == {-2000, -50, 0, 50, 200, 2000}

BaselineTemperatures == {-200, 250, 800}

Baselines ==
    {configure_cell([type |-> c, voltage |-> v, current |-> i, temperature |-> t, time |-> 10]) :
        c \in CellTypes, v \in BaselineVoltages, i \in BaselineCurrents,
        t \in BaselineTemperatures}

SafetyCalls ==
    {[fn |-> "get_safety_warnings", done |-> FALSE,
      args |-> [voltage |-> v, current |-> i, temperature |-> t, cell_type |-> c]] :
        v \in ProbeVoltages, i \in ProbeCurrents, t \in ProbeTemperatures, c \in CellTypes}

SynthesisCalls ==
    {[fn |-> "generate_real_time_data", done |-> FALSE,
      args |-> [cells_data |-> <<b>>, charging_status |-> m, rng |-> rng]] :
        b \in Baselines, m \in Modes, rng \in Randomness(1)}

\* two calls for the same chemistry, as the Cells Overview makes one call
\* for each configured cell
ChargeCalls ==
    {[fn |-> "calculate_charge_percentage", done |-> FALSE,
      args |-> [voltages |-> <<v1, v2>>, cell_type |-> c]] :
        v1 \in ProbeVoltages, v2 \in ProbeVoltages, c \in CellTypes}

\* rows of the history: the probe readings, one reading with an overvoltage
\* alone and one with a high current and an overheating
HistoryRows ==
    {[voltage |-> v, current |-> i, temperature |-> t, cell_type |-> c] :
        v \in ProbeVoltages, i \in ProbeCurrents, t \in ProbeTemperatures, c \in CellTypes}
    \cup {[voltage |-> 370, current |-> 200, temperature |-> 200, cell_type |-> "LFP"],
          [voltage |-> 360, current |-> 1200, temperature |-> 500, cell_type |-> "NMC"]}

SafetyAnalysisCalls ==
    {[fn |-> "safety_analysis", done |-> FALSE, args |-> [row |-> r]] : r \in HistoryRows}

PureInit ==
    /\ cells_data = <<>>
    /\ charging_status = "Idle"
    /\ page = "Dashboard"
    /\ real_time_data = <<>>
    /\ historical_data = <<>>
    /\ all_warnings = <<>>
    /\ now = 0
    /\ frame \in SafetyCalls \cup SynthesisCalls \cup ChargeCalls \cup SafetyAnalysisCalls

ReturnSafetyWarnings ==
    /\ frame.fn = "get_safety_warnings"
    /\ ~frame.done
    /\ frame' = [fn |-> frame.fn, done |-> TRUE, args |-> frame.args,
                 ret |-> get_safety_warnings(frame.args.voltage, frame.args.current,
                                             frame.args.temperature, frame.args.cell_type)]
    /\ UNCHANGED <<cells_data, charging_status, page, real_time_data,
                   historical_data, all_warnings, now>>

ReturnRealTimeData ==
    /\ frame.fn = "generate_real_time_data"
    /\ ~frame.done
    /\ LET cells  == frame.args.cells_data
           status == frame.args.charging_status
           rng    == frame.args.rng
       IN  frame' = [fn |-> frame.fn, done |-> TRUE, args |-> frame.args,
                     locals |-> [k \in 1..Len(cells) |-> perturbed(cells[k], status, rng[k])],
                     ret |-> generate_real_time_data(cells, status, now + 1, rng)]
    /\ UNCHANGED <<cells_data, charging_status, page, real_time_data,
                   historical_data, all_warnings, now>>

ReturnChargePercentage ==
    /\ frame.fn = "calculate_charge_percentage"
    /\ ~frame.done
    /\ frame' = [fn |-> frame.fn, done |-> TRUE, args |-> frame.args,
                 ret |-> [j \in DOMAIN frame.args.voltages |->
                            calculate_charge_percentage(frame.args.voltages[j],
                                                        frame.args.cell_type)]]
    /\ UNCHANGED <<cells_data, charging_status, page, real_time_data,
                   historical_data, all_warnings, now>>

ReturnSafetyAnalysis ==
    /\ frame.fn = "safety_analysis"
    /\ ~frame.done
    /\ frame' = [fn |-> frame.fn, done |-> TRUE, args |-> frame.args,
                 ret |-> safety_data_entry(frame.args.row)]
    /\ UNCHANGED <<cells_data, charging_status, page, real_time_data,
                   historical_data, all_warnings, now>>

PureNext ==
    \/ ReturnSafetyWarnings
    \/ ReturnRealTimeData
    \/ ReturnChargePercentage
    \/ ReturnSafetyAnalysis

PureSpec == PureInit /\ [][PureNext]_vars

(***************************************************************************)
(* Claims.                                                                 *)
(***************************************************************************)
ReturnedFrom(fn) == frame.fn = fn /\ frame.done

\* a tick: an execution of the Control Panel page that synthesized samples
Ticked == now' # now

\* the last sample of Cell_k in the rolling buffer, as a sequence of 0 or 1
latest_sample(k) ==
    LET OfCell(d) == d.cell_id = k
        mine == SelectSeq(real_time_data, OfCell)
    IN  IF mine = <<>> THEN <<>> ELSE <<mine[Len(mine)]>>

\* the lines of the warnings panel that name Cell_k
displayed_for(k) ==
    LET OfCell(line) == line[1] = k
    IN  SelectSeq(all_warnings, OfCell)

\* C1: get_safety_warnings returns the empty list exactly when the voltage
\* is within [min, max] of the chemistry, |current| <= 10 A and the
\* temperature is within [0, 45] C.
C1_EmptyIffInRange ==
    ReturnedFrom("get_safety_warnings") =>
        LET a    == frame.args
            spec == CELL_SPECS[a.cell_type]
        IN  (frame.ret = <<>>) <=>
                /\ spec.min <= a.voltage /\ a.voltage <= spec.max
                /\ Abs(a.current) <= 1000
                /\ 0 <= a.temperature /\ a.temperature <= 450

\* a reading with every dimension on its inclusive limit returned no warning
C1_Witness ==
    /\ ReturnedFrom("get_safety_warnings")
    /\ frame.args.voltage = CELL_SPECS[frame.args.cell_type].max
    /\ frame.args.current = -1000
    /\ frame.args.temperature = 450
    /\ frame.ret = <<>>

\* C2 as stated: in every reachable state the rolling buffer holds at most
\* SamplesPerCell x (number of configured cells) entries.
C2_AlwaysWithinCap ==
    Len(real_time_data) <= SamplesPerCell * Len(cells_data)

\* C2 as amended: whenever the Control Panel is shown, in particular right
\* after every tick, the rolling buffer holds at most SamplesPerCell x
\* (number of configured cells) entries.
C2_WithinCapOnControlPanel ==
    page = "Control Panel" =>
        Len(real_time_data) <= SamplesPerCell * Len(cells_data)

\* the Control Panel after a tick that evicted the samples of the first tick
C2_Witness ==
    /\ page = "Control Panel"
    /\ cells_data # <<>>
    /\ Len(real_time_data) = SamplesPerCell * Len(cells_data)
    /\ real_time_data[1].timestamp > 1

\* C3 as stated: every sample's capacity is |voltage x current| of its own
\* emitted voltage and current when the current is not 0, and 0 otherwise.
C3_CapacityOfEmittedVoltage ==
    ReturnedFrom("generate_real_time_data") =>
        \A k \in DOMAIN frame.ret :
            frame.ret[k].capacity =
                IF frame.ret[k].current # 0
                THEN Abs(frame.ret[k].voltage * frame.ret[k].current)
                ELSE 0

\* C4 as stated: the warnings displayed for a cell are those of the safety
\* function on the cell's latest synthesized sample.
C4_WarningsOfLatestSample ==
    page = "Dashboard" =>
        \A k \in DOMAIN cells_data :
            latest_sample(k) # <<>> =>
                LET d == latest_sample(k)[1]
                    warnings == get_safety_warnings(d.voltage, d.current,
                                                    d.temperature, d.cell_type)
                IN  displayed_for(k) = [j \in 1..Len(warnings) |-> panel_line(k, warnings[j])]

C6_StatusChangesOnlyByButtons ==
    [][charging_status' # charging_status =>
        StartCharging \/ StartDischarging \/ Pause \/ Stop]_vars

\* the status is still Charging after as many ticks as the session has
C6_Witness ==
    /\ charging_status = "Charging"
    /\ page = "Control Panel"
    /\ now = MaxTime
    /\ \A j \in DOMAIN real_time_data : real_time_data[j].current > 0

\* the Control Panel is shown and the session has time left for the tick
\* that follows a button
ButtonsShown ==
    page = "Control Panel" /\ (cells_data = <<>> \/ now < MaxTime)

\* C7: the status is always one of the four modes, it is Idle initially,
\* and whatever it is, each of the four modes is one button away.
C7_FourModesAllReachable ==
    /\ charging_status = "Idle"
    /\ [](/\ charging_status \in Modes
          /\ ButtonsShown =>
                /\ ENABLED (StartCharging /\ charging_status' = "Charging")
                /\ ENABLED (StartDischarging /\ charging_status' = "Discharging")
                /\ ENABLED (Pause /\ charging_status' = "Paused")
                /\ ENABLED (Stop /\ charging_status' = "Idle"))

\* the buttons are shown while the system is paused with cells configured
C7_Witness ==
    /\ charging_status = "Paused"
    /\ ButtonsShown
    /\ cells_data # <<>>
    /\ real_time_data # <<>>

\* C8: a save of n cells leaves exactly the entries Cell_1..Cell_n, each
\* holding the values entered in this save.
C8_SaveReplacesMapping ==
    [][\A widgets \in SetupForms :
        SaveConfiguration(widgets) =>
            /\ DOMAIN cells_data' = 1..Len(widgets)
            /\ \A i \in 1..Len(widgets) :
                /\ cells_data'[i].type = widgets[i].type
                /\ cells_data'[i].voltage = widgets[i].voltage
                /\ cells_data'[i].current = widgets[i].current
                /\ cells_data'[i].temperature = widgets[i].temperature
                /\ cells_data'[i].time = widgets[i].time
                /\ cells_data'[i].capacity = Abs(widgets[i].voltage * widgets[i].current)]_vars

\* after a save of one cell, while samples of Cell_2 and of the previous
\* chemistry of Cell_1 are still in the buffer
C8_Witness ==
    /\ page = "Setup"
    /\ Len(cells_data) = 1
    /\ \E j \in DOMAIN real_time_data : real_time_data[j].cell_id = 2
    /\ \E j \in DOMAIN real_time_data :
          /\ real_time_data[j].cell_id = 1
          /\ real_time_data[j].cell_type # cells_data[1].type

\* the envelope of one mode around a baseline
InEnvelope(p, base, status) ==
    IF status = "Charging" THEN
        /\ base.voltage + 5 <= p.voltage /\ p.voltage <= base.voltage + 15
        /\ Abs(base.current) - 50 <= p.current /\ p.current <= Abs(base.current) + 50
        /\ base.temperature + 20 <= p.temperature /\ p.temperature <= base.temperature + 80
    ELSE IF status = "Discharging" THEN
        /\ base.voltage - 15 <= p.voltage /\ p.voltage <= base.voltage - 5
        /\ (-Abs(base.current)) - 50 <= p.current /\ p.current <= (-Abs(base.current)) + 50
        /\ base.temperature + 10 <= p.temperature /\ p.temperature <= base.temperature + 50
    ELSE IF status = "Paused" THEN
        /\ Abs(p.voltage - base.voltage) <= 2
        /\ -10 <= p.current /\ p.current <= 10
        /\ Abs(p.temperature - base.temperature) <= 10
    ELSE
        /\ Abs(p.voltage - base.voltage) <= 1
        /\ Abs(p.temperature - base.temperature) <= 5

\* C9: every synthesized sample lies in the envelope of the mode in force:
\* its voltage before the clamp, and the current and temperature it emits.
C9_SampleInEnvelope ==
    ReturnedFrom("generate_real_time_data") =>
        \A k \in DOMAIN frame.ret :
            /\ InEnvelope(frame.locals[k], frame.args.cells_data[k], frame.args.charging_status)
            /\ frame.ret[k].voltage = Max(0, frame.locals[k].voltage)
            /\ frame.ret[k].current = frame.locals[k].current
            /\ frame.ret[k].temperature = frame.locals[k].temperature

\* a discharging sample at the far end of its envelope, below 0 V
C9_Witness ==
    /\ ReturnedFrom("generate_real_time_data")
    /\ frame.args.charging_status = "Discharging"
    /\ frame.locals[1].voltage = frame.args.cells_data[1].voltage - 15
    /\ frame.locals[1].voltage < 0
    /\ frame.locals[1].temperature = frame.args.cells_data[1].temperature + 50

\* C10: every sample in the rolling buffer has a voltage >= 0.
C10_VoltageNeverNegative ==
    \A j \in DOMAIN real_time_data : real_time_data[j].voltage >= 0

\* a buffered sample at 0 V whose capacity shows a voltage below 0 before
\* the clamp
C10_Witness ==
    \E j \in DOMAIN real_time_data :
        /\ real_time_data[j].voltage = 0
        /\ real_time_data[j].capacity > 0

\* C11: in the Idle mode every synthesized sample has current 0 and
\* capacity 0, whatever the baseline current of its cell.
C11_IdleCurrentIsZero ==
    ReturnedFrom("generate_real_time_data") /\ frame.args.charging_status = "Idle" =>
        \A k \in DOMAIN frame.ret :
            /\ frame.ret[k].current = 0
            /\ frame.ret[k].capacity = 0

\* an Idle sample of a cell configured with a baseline current of 2.0 A
C11_Witness ==
    /\ ReturnedFrom("generate_real_time_data")
    /\ frame.args.charging_status = "Idle"
    /\ frame.args.cells_data[1].current = 200
    /\ frame.args.cells_data[1].voltage = 320
    /\ frame.ret[1].current = 0
    /\ frame.ret[1].capacity = 0

\* order of two exact fractions with positive denominators
FractionLeq(a, b) == a.num * b.den <= b.num * a.den

\* C12: calculate_charge_percentage returns a value in [0, 100] for every
\* chemistry and every voltage.
C12_PercentageInRange ==
    ReturnedFrom("calculate_charge_percentage") =>
        \A j \in DOMAIN frame.ret :
            /\ frame.ret[j].den > 0
            /\ FractionLeq([num |-> 0, den |-> 1], frame.ret[j])
            /\ FractionLeq(frame.ret[j], [num |-> 100, den |-> 1])

\* a voltage far above the upper limit gives 100, one far below the lower
\* limit gives 0
C12_Witness ==
    /\ ReturnedFrom("calculate_charge_percentage")
    /\ frame.args.voltages = <<500, -10>>
    /\ frame.ret[1] = [num |-> 100, den |-> 1]
    /\ frame.ret[2] = [num |-> 0, den |-> 1]

\* C13: calculate_charge_percentage is monotonically non-decreasing in the
\* voltage, across the two clamping boundaries too.
C13_PercentageMonotone ==
    ReturnedFrom("calculate_charge_percentage") =>
        (frame.args.voltages[1] <= frame.args.voltages[2]
            => FractionLeq(frame.ret[1], frame.ret[2]))

\* a voltage just above the lower limit against one just below the upper
\* limit: 1.25 % and 98.75 % for LFP
C13_Witness ==
    /\ ReturnedFrom("calculate_charge_percentage")
    /\ frame.args.cell_type = "LFP"
    /\ frame.args.voltages = <<281, 359>>
    /\ frame.ret[1] = [num |-> 100, den |-> 80]
    /\ frame.ret[2] = [num |-> 7900, den |-> 80]

\* the number of warnings of a list whose message is of one of the kinds
CountOf(warnings, kinds) ==
    Cardinality({j \in DOMAIN warnings : warnings[j][2][1] \in kinds})

\* C14: get_safety_warnings returns at most one warning for each of the
\* dimensions voltage, current and temperature, so at most three in all.
C14_OneWarningPerDimension ==
    ReturnedFrom("get_safety_warnings") =>
        /\ CountOf(frame.ret, {"Overvoltage", "Undervoltage"}) <= 1
        /\ CountOf(frame.ret, {"High current"}) <= 1
        /\ CountOf(frame.ret, {"Overheating", "Low temperature"}) <= 1
        /\ CountOf(frame.ret, {"Overvoltage", "Undervoltage", "High current",
                               "Overheating", "Low temperature"}) = Len(frame.ret)
        /\ Len(frame.ret) <= 3

\* a reading out of range in all three dimensions: three warnings
C14_Witness ==
    /\ ReturnedFrom("get_safety_warnings")
    /\ Len(frame.ret) = 3
    /\ CountOf(frame.ret, {"Overvoltage"}) = 1
    /\ CountOf(frame.ret, {"High current"}) = 1
    /\ CountOf(frame.ret, {"Overheating"}) = 1

\* the list the claim gives: severity and kind of each warning, the
\* voltage first, then the current, then the temperature
ReferenceWarnings(voltage, current, temperature, cell_type) ==
    (IF voltage > CELL_SPECS[cell_type].max THEN << <<"CRITICAL", "Overvoltage">> >>
     ELSE IF voltage < CELL_SPECS[cell_type].min THEN << <<"WARNING", "Undervoltage">> >>
     ELSE <<>>)
    \o (IF current > 1000 \/ current < -1000 THEN << <<"WARNING", "High current">> >>
        ELSE <<>>)
    \o (IF temperature > 450 THEN << <<"CRITICAL", "Overheating">> >>
        ELSE IF temperature < 0 THEN << <<"WARNING", "Low temperature">> >>
        ELSE <<>>)

\* C15: the list get_safety_warnings returns is the reference list: CRITICAL
\* Overvoltage or WARNING Undervoltage, then WARNING High current, then
\* CRITICAL Overheating or WARNING Low temperature, in that order.
C15_WarningsInFixedOrder ==
    ReturnedFrom("get_safety_warnings") =>
        [j \in DOMAIN frame.ret |-> <<frame.ret[j][1], frame.ret[j][2][1]>>]
            = ReferenceWarnings(frame.args.voltage, frame.args.current,
                                frame.args.temperature, frame.args.cell_type)

\* an undervoltage, a high discharge current and a low temperature together
C15_Witness ==
    /\ ReturnedFrom("get_safety_warnings")
    /\ frame.args.current < -1000
    /\ Len(frame.ret) = 3
    /\ frame.ret[1][1] = "WARNING" /\ frame.ret[1][2][1] = "Undervoltage"
    /\ frame.ret[2][1] = "WARNING" /\ frame.ret[2][2][1] = "High current"
    /\ frame.ret[3][1] = "WARNING" /\ frame.ret[3][2][1] = "Low temperature"

\* C16: the safety score of a reading is max(0, 100 - 25 n), n the number
\* of warnings get_safety_warnings returns for it whatever their severity,
\* and lies in [0, 100]; an overvoltage alone scores 75, a high current
\* with an overheating scores 50.
C16_SafetyScoreFromCount ==
    ReturnedFrom("safety_analysis") =>
        LET row == frame.args.row
            n   == Len(get_safety_warnings(row.voltage, row.current,
                                           row.temperature, row.cell_type))
        IN  /\ frame.ret.warning_count = n
            /\ frame.ret.safety_score = (IF 100 - 25 * n > 0 THEN 100 - 25 * n ELSE 0)
            /\ frame.ret.safety_score \in 0..100
            /\ (row = [voltage |-> 370, current |-> 200, temperature |-> 200,
                       cell_type |-> "LFP"] => frame.ret.safety_score = 75)
            /\ (row = [voltage |-> 360, current |-> 1200, temperature |-> 500,
                       cell_type |-> "NMC"] => frame.ret.safety_score = 50)

\* the LFP reading 3.7 V, 2 A, 20 C: one CRITICAL warning, score 75
C16_Witness ==
    /\ ReturnedFrom("safety_analysis")
    /\ frame.args.row = [voltage |-> 370, current |-> 200, temperature |-> 200,
                         cell_type |-> "LFP"]
    /\ frame.ret = [safety_score |-> 75, warning_count |-> 1]

\* the number of buffered samples that carry a cell id
SamplesOf(buffer, id) ==
    Cardinality({j \in DOMAIN buffer : buffer[j].cell_id = id})

\* C17: after every tick the rolling buffer holds, for every cell id, at
\* most 60 samples carrying that id (SamplesPerCell in the model), also
\* when a save changed the number of cells between ticks.
C17_AtMostCapPerCell ==
    [][Ticked => \A id \in 1..MaxCells :
                    SamplesOf(real_time_data', id) <= SamplesPerCell]_vars

\* an active mode shown on the Control Panel with cells to sample
Monitoring ==
    /\ charging_status \in {"Charging", "Discharging"}
    /\ page = "Control Panel"
    /\ cells_data # <<>>

\* C18: while the mode is Charging or Discharging and the Control Panel is
\* shown, a tick is followed by another tick with no operator action, until
\* the operator leaves that situation or the followed time is over; in the
\* modes Idle and Paused and on the other pages no rerun is made on the
\* script's own account.
C18_TicksFollowWhileActive ==
    /\ [](ENABLED AutoRefresh =>
            charging_status \in {"Charging", "Discharging"} /\ page = "Control Panel")
    /\ ((Monitoring /\ now < MaxTime) ~> (~Monitoring \/ now = MaxTime))

\* a discharge watched until the last tick: the two-cell buffer is at its
\* cap and holds nothing but samples of that last tick and the one before
C18_Witness ==
    /\ Monitoring
    /\ charging_status = "Discharging"
    /\ now = MaxTime
    /\ Len(cells_data) = MaxCells
    /\ Len(real_time_data) = SamplesPerCell * Len(cells_data)
    /\ \A j \in DOMAIN real_time_data : real_time_data[j].timestamp >= MaxTime - 1

\* C19: once the Analysis page has generated a non-empty history no later
\* operation changes it (a save, a mode change, a tick, another visit of
\* the Analysis page); it is generated only while empty, by the Analysis
\* page.
C19_HistoryFrozenOnceGenerated ==
    [][/\ historical_data # <<>> => historical_data' = historical_data
       /\ historical_data' # historical_data =>
            historical_data = <<>> /\ page' = "Analysis" /\ cells_data # <<>>]_vars

\* a history of two cells kept after a save that left one cell and after
\* ticks of that cell
C19_Witness ==
    /\ \E j \in DOMAIN historical_data : historical_data[j].cell_id = 2
    /\ Len(cells_data) = 1
    /\ real_time_data # <<>>
    /\ \A j \in DOMAIN real_time_data : real_time_data[j].cell_id = 1

\* C20: a save of the cell configuration leaves the rolling buffer as it
\* is, and so does showing the Control Panel while no cell is configured;
\* a save that removes cells therefore leaves in the buffer every sample of
\* the removed cells.
C20_SaveLeavesBufferAlone ==
    [][/\ (\E widgets \in SetupForms : SaveConfiguration(widgets))
            => real_time_data' = real_time_data
       /\ (page' = "Control Panel" /\ cells_data' = <<>>)
            => real_time_data' = real_time_data]_vars

\* right after a save from two cells to one: the buffer is still the full
\* buffer of two cells, half of it samples of the removed Cell_2
C20_Witness ==
    /\ page = "Setup"
    /\ Len(cells_data) = 1
    /\ Len(real_time_data) = SamplesPerCell * 2
    /\ SamplesOf(real_time_data, 2) = SamplesPerCell

====
